---- MODULE Spec2Model ----
(***************************************************************************)
(* Model of parsl.data_provider.files.File: construction from a url        *)
(* string (urlparse + os.path.basename), the classification is_remote,     *)
(* the path resolution filepath with its dynamically bound attribute       *)
(* local_path, and the three string conversions.                           *)
(*                                                                         *)
(* A Python string is a sequence of atoms.  An atom is either a delimiter  *)
(* character or a word, i.e. a run of characters that are all letters.     *)
(* No recognized scheme is the concatenation of several atoms of the       *)
(* alphabet below, so comparing atom sequences is comparing the strings.   *)
(* A Python object is a function from the names of the attributes it has   *)
(* to their values, so hasattr is membership in the DOMAIN.                *)
(***************************************************************************)
EXTENDS Naturals, Sequences, FiniteSets, TLC

\* ---------------------------------------------------------------- bounds
MaxPath == 3
NumReaders == 2

\* -------------------------------------------------------------- alphabet
RemoteSchemes == {<<"ftp">>, <<"http">>, <<"https">>, <<"globus">>}
LocalSchemes == {<<"file">>}

SchemeWords == {"file", "ftp", "http", "https", "globus", "sftp", "FTP"}
Words == SchemeWords \cup {"a", "h"}
TailAtoms == {"/", "a", "#", "?", ";", ":"}

\* str.lower() on the alphabet
LowerAtom(w) == IF w = "FTP" THEN "ftp" ELSE w
Lower(s) == [i \in 1..Len(s) |-> LowerAtom(s[i])]

\* str.find(c, from): least index >= from holding c, 0 when there is none
Find(s, c, from) ==
    IF \E i \in from..Len(s) : s[i] = c
    THEN CHOOSE i \in from..Len(s) : s[i] = c /\ \A j \in from..(i-1) : s[j] # c
    ELSE 0

\* str.rfind(c): greatest index holding c, 0 when there is none
RFind(s, c) ==
    IF \E i \in 1..Len(s) : s[i] = c
    THEN CHOOSE i \in 1..Len(s) : s[i] = c /\ \A j \in (i+1)..Len(s) : s[j] # c
    ELSE 0

\* least index >= from holding one of the characters of cs, Len(s)+1 if none
FindAny(s, cs, from) ==
    IF \E i \in from..Len(s) : s[i] \in cs
    THEN CHOOSE i \in from..Len(s) : s[i] \in cs /\ \A j \in from..(i-1) : s[j] \notin cs
    ELSE Len(s) + 1

Before(s, i) == SubSeq(s, 1, i - 1)
After(s, i) == SubSeq(s, i + 1, Len(s))

\* urllib.parse.uses_params, restricted to the schemes the alphabet spells
UsesParams == {<<>>, <<"ftp">>, <<"http">>, <<"https">>, <<"sftp">>}

\* urllib.parse.urlsplit: scheme, netloc, then fragment and query are cut off
UrlSplit(url) ==
    LET i == Find(url, ":", 1)
        hasScheme == /\ i > 1
                     /\ url[1] \in Words
                     /\ \A k \in 1..(i-1) : url[k] \in Words
        scheme == IF hasScheme THEN Lower(Before(url, i)) ELSE <<>>
        u1 == IF hasScheme THEN After(url, i) ELSE url
        hasNetloc == Len(u1) >= 2 /\ u1[1] = "/" /\ u1[2] = "/"
        d == FindAny(u1, {"/", "?", "#"}, 3)
        netloc == IF hasNetloc THEN SubSeq(u1, 3, d - 1) ELSE <<>>
        u2 == IF hasNetloc THEN SubSeq(u1, d, Len(u1)) ELSE u1
        h == Find(u2, "#", 1)
        u3 == IF h > 0 THEN Before(u2, h) ELSE u2
        q == Find(u3, "?", 1)
        u4 == IF q > 0 THEN Before(u3, q) ELSE u3
    IN  [scheme |-> scheme, netloc |-> netloc, path |-> u4]

\* urllib.parse._splitparams: the path part, up to the first ';' of the last segment
SplitParams(url) ==
    LET s == RFind(url, "/")
        i == IF s > 0 THEN Find(url, ";", s) ELSE Find(url, ";", 1)
    IN  IF i = 0 THEN url ELSE Before(url, i)

\* urllib.parse.urlparse
UrlParse(url) ==
    LET r == UrlSplit(url)
    IN  IF r.scheme \in UsesParams /\ Find(r.path, ";", 1) > 0
        THEN [r EXCEPT !.path = SplitParams(r.path)]
        ELSE r

\* os.path.basename
Basename(p) == After(p, RFind(p, "/"))

\* File.__init__ without the default: the scheme is taken as parsed
NewFile_no_default(url) ==
    LET parsed_url == UrlParse(url)
    IN  [url |-> url,
         scheme |-> parsed_url.scheme,
         netloc |-> parsed_url.netloc,
         path |-> parsed_url.path,
         filename |-> Basename(parsed_url.path)]

\* File.__init__
NewFile(url) ==
    LET parsed_url == UrlParse(url)
    IN  [url |-> url,
         scheme |-> IF parsed_url.scheme # <<>> THEN parsed_url.scheme ELSE <<"file">>,
         netloc |-> parsed_url.netloc,
         path |-> parsed_url.path,
         filename |-> Basename(parsed_url.path)]

\* ------------------------------------------------------ outcomes of a call
Return(v) == [kind |-> "return", value |-> v]
Raise(exc, msg) == [kind |-> "raise", exc |-> exc, msg |-> msg]
NoCall == [kind |-> "none"]

\* hasattr(self, name)
hasattr(self, name) == name \in DOMAIN self

\* self.name = value, on an object without __slots__, __setattr__ or properties
setattr(self, name, value) ==
    [n \in (DOMAIN self) \cup {name} |-> IF n = name THEN value ELSE self[n]]

\* self.name, AttributeError when the object has no such attribute
getattr(self, name) ==
    IF hasattr(self, name)
    THEN Return(self[name])
    ELSE Raise("AttributeError", <<name>>)

\* File.is_remote reporting a staged file as local
is_remote_staged(self) ==
    IF hasattr(self, "local_path")
    THEN Return(FALSE)
    ELSE IF self["scheme"] \in RemoteSchemes
         THEN Return(TRUE)
         ELSE IF self["scheme"] \in LocalSchemes
              THEN Return(FALSE)
              ELSE Raise("Exception",
                         <<"Cannot determine if unknown file scheme ">> \o self["scheme"] \o <<" is remote">>)

\* File.is_remote
is_remote(self) ==
    IF self["scheme"] \in RemoteSchemes
    THEN Return(TRUE)
    ELSE IF self["scheme"] \in LocalSchemes
         THEN Return(FALSE)
         ELSE Raise("Exception",
                    <<"Cannot determine if unknown file scheme ">> \o self["scheme"] \o <<" is remote">>)

\* resolution by scheme that treats an unknown scheme as local
filepath_by_scheme_default(self) ==
    IF self["scheme"] \in RemoteSchemes
    THEN Return(self["filename"])
    ELSE Return(self["path"])

\* resolution by scheme that hands out the full path of a remote file
filepath_by_scheme_fullpath(self) ==
    IF self["scheme"] \in RemoteSchemes \cup LocalSchemes
    THEN Return(self["path"])
    ELSE Raise("Exception",
               <<"Cannot return filepath for unknown scheme ">> \o self["scheme"])

\* File.filepath below the hasattr test: resolution by scheme
filepath_by_scheme(self) ==
    IF self["scheme"] \in RemoteSchemes
    THEN Return(self["filename"])
    ELSE IF self["scheme"] \in LocalSchemes
         THEN Return(self["path"])
         ELSE Raise("Exception",
                    <<"Cannot return filepath for unknown scheme ">> \o self["scheme"])

\* File.filepath testing the truth of local_path instead of its presence
filepath_truthy(self) ==
    IF hasattr(self, "local_path") /\ self["local_path"] # <<>>
    THEN getattr(self, "local_path")
    ELSE IF self["scheme"] \in RemoteSchemes
         THEN Return(self["filename"])
         ELSE IF self["scheme"] \in LocalSchemes
              THEN Return(self["path"])
              ELSE Raise("Exception",
                         <<"Cannot return filepath for unknown scheme ">> \o self["scheme"])

\* File.filepath
filepath(self) ==
    IF hasattr(self, "local_path")
    THEN getattr(self, "local_path")
    ELSE filepath_by_scheme(self)

\* File.__str__: the debug message formats self.filepath, then self.filepath is returned
str(self) ==
    LET logged == filepath(self)
    IN  IF logged.kind = "raise" THEN logged ELSE filepath(self)

\* File.__repr__ showing the url
repr_url(self) == Return(self["url"])

\* File.__repr__
repr(self) == str(self)

\* File.__fspath__
fspath(self) == filepath(self)

\* ------------------------------------------------------------------ inputs
Prefixes == {<<>>} \cup {<<w, ":">> : w \in SchemeWords}
Auths == {<<>>, <<"/", "/", "h">>}
Tails == UNION {[1..n -> TailAtoms] : n \in 0..MaxPath}
Urls == {p \o a \o t : p \in Prefixes, a \in Auths, t \in Tails}
RaceUrls == {p \o a \o t : p \in Prefixes, a \in Auths, t \in {<<>>, <<"/", "a">>}}

\* values a staging actor binds to local_path
LocalPaths == {<<>>, <<"/", "w", "/", "a">>}

Readers == 1..NumReaders

\* ------------------------------------------------------------------- state
\* file: the File object; op, arg, ret: the last call, its argument, its outcome;
\* prev: history, the value a rebinding has replaced;
\* rpc, rhas, rafter, rret: the readers of the interleaved specification
VARIABLES file, op, arg, ret, prev, rpc, rhas, rafter, rret

vars == <<file, op, arg, ret, prev, rpc, rhas, rafter, rret>>
callVars == <<op, arg, ret, prev>>
readerVars == <<rpc, rhas, rafter, rret>>

ReadersIdle ==
    /\ rpc = [r \in Readers |-> "idle"]
    /\ rhas = [r \in Readers |-> FALSE]
    /\ rafter = [r \in Readers |-> FALSE]
    /\ rret = [r \in Readers |-> NoCall]

\* the state after File(url)
Init ==
    /\ \E url \in Urls : file = NewFile(url)
    /\ op = "init"
    /\ arg = {}
    /\ ret = NoCall
    /\ prev = {}
    /\ ReadersIdle

\* f.is_remote()
CallIsRemote ==
    /\ op' = "is_remote"
    /\ arg' = {}
    /\ ret' = is_remote(file)
    /\ UNCHANGED <<file, prev, readerVars>>

\* f.filepath caching what it resolved in local_path
CallFilepath_caches ==
    /\ op' = "filepath"
    /\ arg' = {}
    /\ ret' = filepath(file)
    /\ file' = IF filepath(file).kind = "return"
               THEN setattr(file, "local_path", filepath(file).value)
               ELSE file
    /\ UNCHANGED <<prev, readerVars>>

\* f.filepath
CallFilepath ==
    /\ op' = "filepath"
    /\ arg' = {}
    /\ ret' = filepath(file)
    /\ UNCHANGED <<file, prev, readerVars>>

\* str(f)
CallStr ==
    /\ op' = "str"
    /\ arg' = {}
    /\ ret' = str(file)
    /\ UNCHANGED <<file, prev, readerVars>>

\* repr(f)
CallRepr ==
    /\ op' = "repr"
    /\ arg' = {}
    /\ ret' = repr(file)
    /\ UNCHANGED <<file, prev, readerVars>>

\* os.fspath(f)
CallFspath ==
    /\ op' = "fspath"
    /\ arg' = {}
    /\ ret' = fspath(file)
    /\ UNCHANGED <<file, prev, readerVars>>

\* a write-once binding: a second assignment is ignored
SetLocalPath_once(P) ==
    /\ op' = "bind"
    /\ arg' = {P}
    /\ ret' = NoCall
    /\ prev' = IF hasattr(file, "local_path") THEN {file["local_path"]} ELSE prev
    /\ file' = IF hasattr(file, "local_path") THEN file ELSE setattr(file, "local_path", P)
    /\ UNCHANGED readerVars

\* f.local_path = P, by the staging code; nothing in File guards a second binding
SetLocalPath(P) ==
    /\ op' = "bind"
    /\ arg' = {P}
    /\ ret' = NoCall
    /\ prev' = IF hasattr(file, "local_path") THEN {file["local_path"]} ELSE prev
    /\ file' = setattr(file, "local_path", P)
    /\ UNCHANGED readerVars

Next ==
    \/ CallIsRemote
    \/ CallFilepath
    \/ CallStr
    \/ CallRepr
    \/ CallFspath
    \/ \E P \in LocalPaths : SetLocalPath(P)

Spec == Init /\ [][Next]_vars

\* ------------------------------------------ interleaved reads of filepath
\* One staging actor binds local_path once; each reader runs File.filepath
\* as its steps: the property is entered, hasattr is evaluated, then either
\* self.local_path is fetched or the scheme decides.
InitRace ==
    /\ \E url \in RaceUrls : file = NewFile(url)
    /\ op = "init"
    /\ arg = {}
    /\ ret = NoCall
    /\ prev = {}
    /\ ReadersIdle

\* the single binding of the staging actor
BindOnce(P) ==
    /\ ~hasattr(file, "local_path")
    /\ file' = setattr(file, "local_path", P)
    /\ UNCHANGED <<callVars, readerVars>>

\* reader r enters File.filepath
ReadBegin(r) ==
    /\ rpc[r] = "idle"
    /\ rpc' = [rpc EXCEPT ![r] = "begun"]
    /\ rafter' = [rafter EXCEPT ![r] = hasattr(file, "local_path")]
    /\ rret' = [rret EXCEPT ![r] = NoCall]
    /\ UNCHANGED <<file, callVars, rhas>>

\* reader r evaluates hasattr(self, 'local_path')
ReadTest(r) ==
    /\ rpc[r] = "begun"
    /\ rpc' = [rpc EXCEPT ![r] = "tested"]
    /\ rhas' = [rhas EXCEPT ![r] = hasattr(file, "local_path")]
    /\ UNCHANGED <<file, callVars, rafter, rret>>

\* reader r resolving by scheme whatever the test found
ReadFetch_stale(r) ==
    /\ rpc[r] = "tested"
    /\ rpc' = [rpc EXCEPT ![r] = "idle"]
    /\ rret' = [rret EXCEPT ![r] = filepath_by_scheme(file)]
    /\ UNCHANGED <<file, callVars, rhas, rafter>>

\* reader r returns self.local_path, or resolves by scheme
ReadFetch(r) ==
    /\ rpc[r] = "tested"
    /\ rpc' = [rpc EXCEPT ![r] = "idle"]
    /\ rret' = [rret EXCEPT ![r] = IF rhas[r]
                                   THEN getattr(file, "local_path")
                                   ELSE filepath_by_scheme(file)]
    /\ UNCHANGED <<file, callVars, rhas, rafter>>

NextRace ==
    \/ \E P \in LocalPaths : BindOnce(P)
    \/ \E r \in Readers : ReadBegin(r)
    \/ \E r \in Readers : ReadTest(r)
    \/ \E r \in Readers : ReadFetch(r)

SpecRace == InitRace /\ [][NextRace]_vars

\* ------------------------------------------------------------- properties
ConstructedAttrs == {"url", "scheme", "netloc", "path", "filename"}
ReadOps == {"is_remote", "filepath", "str", "repr", "fspath"}
KnownSchemes == RemoteSchemes \cup LocalSchemes

Bound == hasattr(file, "local_path")
Parsed == UrlParse(file["url"])
UnknownScheme == file["scheme"] \notin KnownSchemes

\* b is the final segment of p: what follows the last "/" of p
IsFinalSegment(b, p) ==
    /\ \A i \in 1..Len(b) : b[i] # "/"
    /\ Len(b) <= Len(p)
    /\ SubSeq(p, Len(p) - Len(b) + 1, Len(p)) = b
    /\ (Len(b) < Len(p) => p[Len(p) - Len(b)] = "/")

\* the outcome r is a failure whose message carries the scheme s
FailsNaming(r, s) ==
    /\ r.kind = "raise"
    /\ r.exc = "Exception"
    /\ \E i \in 1..Len(r.msg) : SubSeq(r.msg, i, i + Len(s) - 1) = s

\* C1: in every state in which local_path is bound, to any value P and
\* under any scheme, filepath returns exactly P: the scheme is not consulted.
C1_OverridePrecedence ==
    Bound => /\ filepath(file) = Return(file["local_path"])
             /\ (op = "filepath" => ret = Return(file["local_path"]))

\* an unrecognized scheme, the empty string bound, and filepath has returned it
C1_Witness ==
    /\ Bound
    /\ UnknownScheme
    /\ file["local_path"] = <<>>
    /\ op = "filepath"
    /\ ret = Return(<<>>)

\* C2 as claimed: once local_path is bound, no operation, a further binding
\* included, unsets it or replaces its value.
C2_BoundForever ==
    [][Bound => /\ hasattr(file', "local_path")
                /\ file'["local_path"] = file["local_path"]]_vars

\* C2 as amended: once local_path is bound no operation unsets it and no
\* read replaces it; a further binding replaces it by the value it binds,
\* and filepath returns the value bound last.
C2_BoundUntilRebound ==
    [][Bound => /\ hasattr(file', "local_path")
                /\ (op' # "bind" => file'["local_path"] = file["local_path"])
                /\ (op' = "bind" => file'["local_path"] \in arg')
                /\ filepath(file') = Return(file'["local_path"])]_vars

\* a second binding has replaced a different value and filepath returned the new one
C2_Witness ==
    /\ Bound
    /\ prev # {}
    /\ file["local_path"] \notin prev
    /\ op = "filepath"
    /\ ret = Return(file["local_path"])

\* C3 as claimed: under an unrecognized scheme every call of is_remote and
\* of filepath fails with an error naming the scheme.
C3_UnknownAlwaysFails ==
    (UnknownScheme /\ op \in {"is_remote", "filepath"}) => FailsNaming(ret, file["scheme"])

\* C3 as amended: under an unrecognized scheme is_remote always fails with
\* an error naming the scheme, and filepath fails so as long as local_path
\* is not bound.
C3_UnknownFailsUnlessBound ==
    UnknownScheme =>
        /\ FailsNaming(is_remote(file), file["scheme"])
        /\ (op = "is_remote" => FailsNaming(ret, file["scheme"]))
        /\ (~Bound => FailsNaming(filepath(file), file["scheme"]))
        /\ (op = "filepath" /\ ~Bound => FailsNaming(ret, file["scheme"]))

\* filepath has failed on an unbound sftp reference
C3_Witness ==
    /\ file["scheme"] = <<"sftp">>
    /\ ~Bound
    /\ op = "filepath"
    /\ ret.kind = "raise"

\* C4: under a scheme of ftp, http, https, globus is_remote returns true
\* and, while local_path is unbound, filepath returns the final segment of
\* the parsed path.
C4_RemoteBasename ==
    Parsed.scheme \in RemoteSchemes =>
        /\ is_remote(file) = Return(TRUE)
        /\ (op = "is_remote" => ret = Return(TRUE))
        /\ (~Bound => /\ filepath(file).kind = "return"
                      /\ IsFinalSegment(filepath(file).value, Parsed.path))
        /\ (op = "filepath" /\ ~Bound => /\ ret.kind = "return"
                                         /\ IsFinalSegment(ret.value, Parsed.path))

\* a remote url with an authority, resolved to the last segment of its path
C4_Witness ==
    /\ Parsed.scheme \in RemoteSchemes
    /\ Parsed.netloc = <<"h">>
    /\ Parsed.path = <<"/", "a">>
    /\ ~Bound
    /\ op = "filepath"
    /\ ret = Return(<<"a">>)

\* C5: the scheme is never empty; when the url carries the scheme file or
\* none, the scheme is file, is_remote returns false and, while local_path
\* is unbound, filepath returns the whole parsed path.
C5_LocalFullPath ==
    /\ file["scheme"] # <<>>
    /\ Parsed.scheme \in {<<>>, <<"file">>} =>
        /\ file["scheme"] = <<"file">>
        /\ is_remote(file) = Return(FALSE)
        /\ (op = "is_remote" => ret = Return(FALSE))
        /\ (~Bound => filepath(file) = Return(Parsed.path))
        /\ (op = "filepath" /\ ~Bound => ret = Return(Parsed.path))

\* a url without scheme, with a directory part, resolved to its whole path
C5_Witness ==
    /\ Parsed.scheme = <<>>
    /\ Parsed.path = <<"a", "/", "a">>
    /\ ~Bound
    /\ op = "filepath"
    /\ ret = Return(<<"a", "/", "a">>)

\* C6: the outcome of is_remote is the one an object carrying the scheme
\* alone gives, it is the same before and after every step, and for a remote
\* scheme it is still true once local_path is bound, when filepath returns
\* local_path.
C6_RemotenessFixed ==
    /\ [](/\ is_remote(file) = is_remote([scheme |-> file["scheme"]])
          /\ (op = "is_remote" => ret = is_remote([scheme |-> file["scheme"]]))
          /\ (file["scheme"] \in RemoteSchemes /\ Bound =>
                /\ is_remote(file) = Return(TRUE)
                /\ filepath(file) = Return(file["local_path"])))
    /\ [][is_remote(file') = is_remote(file)]_vars

\* a bound remote reference whose override differs from its basename is still remote
C6_Witness ==
    /\ file["scheme"] \in RemoteSchemes
    /\ Bound
    /\ file["local_path"] # file["filename"]
    /\ op = "is_remote"
    /\ ret = Return(TRUE)

\* C7: str, repr and __fspath__ yield what filepath yields in the same
\* state, the same string or the same failure.
C7_ConversionIsFilepath ==
    /\ str(file) = filepath(file)
    /\ repr(file) = filepath(file)
    /\ fspath(file) = filepath(file)
    /\ (op \in {"str", "repr", "fspath"} => ret = filepath(file))

\* repr has failed on an unbound reference of unrecognized scheme
C7_Witness ==
    /\ op = "repr"
    /\ UnknownScheme
    /\ ~Bound
    /\ ret.kind = "raise"

C9_Frame ==
    [][/\ \A a \in ConstructedAttrs : file'[a] = file[a]
       /\ (op' \in ReadOps => file' = file)
       /\ (op' = "bind" => DOMAIN file' = ConstructedAttrs \cup {"local_path"})]_vars

\* a failed filepath on a reference that still is what the constructor made
C9_Witness ==
    /\ op = "filepath"
    /\ ret.kind = "raise"
    /\ file = NewFile(file["url"])

\* C10: with a single binding interleaved with the readers' steps, a
\* completed read yields the scheme's outcome or the bound value, and a read
\* begun after the binding yields the bound value.
C10_RacingReads ==
    \A r \in Readers :
        (rpc[r] = "idle" /\ rret[r] # NoCall) =>
            /\ \/ rret[r] = filepath_by_scheme(file)
               \/ Bound /\ rret[r] = Return(file["local_path"])
            /\ (rafter[r] => Bound /\ rret[r] = Return(file["local_path"]))

\* one read overtaken by the binding kept the scheme's outcome, another begun later got the bound value
C10_Witness ==
    /\ Bound
    /\ \E r \in Readers :
        /\ rpc[r] = "idle" /\ ~rafter[r] /\ ~rhas[r]
        /\ rret[r] = filepath_by_scheme(file)
        /\ rret[r] # Return(file["local_path"])
    /\ \E r \in Readers :
        /\ rpc[r] = "idle" /\ rafter[r]
        /\ rret[r] = Return(file["local_path"])

====
